---- MODULE Spec2Model ----
(***************************************************************************)
(* Model of the Solana token vesting program                               *)
(* (programs/vesting/src/lib.rs): one data account and one escrow wallet   *)
(* per token mint, the four instructions initialize, claim, withdraw and   *)
(* change_admin, and the cluster clock.                                    *)
(*                                                                         *)
(* Each instruction is a pure handler operator that returns the error it   *)
(* ends with together with the account data and transfer it has produced   *)
(* so far; the action that runs it commits that result only when the       *)
(* handler returns Ok, which is how the Solana runtime treats a failed     *)
(* instruction.                                                            *)
(*                                                                         *)
(* Integer widths are scaled: u64 is modelled by 0..U64_MAX and u128 by    *)
(* 0..U128_MAX with U128_MAX + 1 = (U64_MAX + 1)^2, since TLC's integers   *)
(* are 32 bits wide.                                                       *)
(***************************************************************************)
EXTENDS Integers, Sequences, FiniteSets, TLC

\* ------------------------------------------------------------------------
\* Program constants
\* ------------------------------------------------------------------------
SECONDS_PER_MONTH == 2629776
GRACE_PERIOD == 6 * SECONDS_PER_MONTH
MAX_START_DELAY == 365 * 24 * 60 * 60
MAX_BENEFICIARIES == 50
MAX_DECIMALS == 9

\* Pubkey::default(), the all-zero key
DefaultPubkey == 0

\* ------------------------------------------------------------------------
\* Bounds of the model
\* ------------------------------------------------------------------------
\* largest value of the (scaled) u64 type
U64_MAX == 32767
\* clock value when the model starts
T0 == 1000
\* longest beneficiary list drawn from BenChoices
MaxLen == 2

U128_MAX == (U64_MAX + 1) * (U64_MAX + 1) - 1

\* largest time the model computes with; times are in seconds, unscaled, and
\* a time that fits below it fits in i64
I64_MAX == 2147483647

\* signers of the instructions: 1 and 2 may be beneficiaries, 3 never is
Callers == {1, 2, 3}

Range(f) == { f[i] : i \in DOMAIN f }
Max(a, b) == IF a >= b THEN a ELSE b
Min(a, b) == IF a <= b THEN a ELSE b

\* ------------------------------------------------------------------------
\* Data structures
\* ------------------------------------------------------------------------
Beneficiary(k, alloc, claimed, start, cliff, total) ==
    [key |-> k, allocated_tokens |-> alloc, claimed_tokens |-> claimed,
     start_time |-> start, cliff_months |-> cliff, total_months |-> total]

\* DataAccount::default()
DataAccountDefault ==
    [token_amount |-> 0, authority |-> DefaultPubkey,
     beneficiaries |-> <<>>, decimals |-> 0]

\* the result of a handler
Result(e, d, amt, n) == [err |-> e, data |-> d, amount |-> amt, processed |-> n]

\* mutant: the result of the transfer is dropped, the handler goes on to Ok
TokenTransfer_ResultIgnored(r, ok) ==
    IF r.err = "Ok" /\ ~ok THEN [r EXCEPT !.amount = 0] ELSE r

\* token::transfer(cpi_ctx, amount)?, the last fallible statement of
\* initialize, claim and withdraw: the token program may refuse the transfer
\* (ok = FALSE), and the handler then returns that error with the account
\* data it has already written
TokenTransfer(r, ok) ==
    IF r.err = "Ok" /\ ~ok THEN [r EXCEPT !.err = "TransferFailed"] ELSE r

\* ------------------------------------------------------------------------
\* initialize
\* ------------------------------------------------------------------------
\* the require!s on one beneficiary inside the loop of initialize, in order
CheckBeneficiary(b, now) ==
    IF ~(b.total_months >= 1) THEN "InvalidVestingPeriod"
    ELSE IF ~(b.cliff_months <= 48) THEN "CliffTooLong"
    ELSE IF ~(b.cliff_months < b.total_months) THEN "InvalidCliffPeriod"
    ELSE IF ~(b.allocated_tokens > 0) THEN "InvalidAllocation"
    ELSE IF ~(b.start_time >= now) THEN "InvalidStartTime"
    ELSE IF ~(b.start_time <= now + MAX_START_DELAY) THEN "StartTimeTooFar"
    ELSE IF b.cliff_months > 0 /\ ~(b.total_months % b.cliff_months = 0)
         THEN "InvalidVestingConfig"
    ELSE "Ok"

\* mutant: the loop without the HashSet
RECURSIVE ValidateBeneficiaries_NoDuplicateCheck(_, _, _, _)
ValidateBeneficiaries_NoDuplicateCheck(bens, i, seen, now) ==
    IF i > Len(bens) THEN "Ok"
    ELSE LET e == CheckBeneficiary(bens[i], now) IN
         IF e # "Ok" THEN e
         ELSE ValidateBeneficiaries_NoDuplicateCheck(bens, i + 1, seen, now)

\* the loop over beneficiaries.iter() with the HashSet seen: the first error
RECURSIVE ValidateBeneficiaries(_, _, _, _)
ValidateBeneficiaries(bens, i, seen, now) ==
    IF i > Len(bens) THEN "Ok"
    ELSE LET e == CheckBeneficiary(bens[i], now) IN
         IF e # "Ok" THEN e
         ELSE IF bens[i].key \in seen THEN "DuplicateBeneficiary"
         ELSE ValidateBeneficiaries(bens, i + 1, seen \cup {bens[i].key}, now)

\* mutant: total_allocated by wrapping_add
RECURSIVE TotalAllocated_Wrapping(_, _, _)
TotalAllocated_Wrapping(bens, i, total) ==
    IF i > Len(bens) THEN total
    ELSE TotalAllocated_Wrapping(bens, i + 1,
            (total + bens[i].allocated_tokens) % (U64_MAX + 1))

\* total_allocated by checked_add over the list; -1 stands for the overflow
RECURSIVE TotalAllocated(_, _, _)
TotalAllocated(bens, i, total) ==
    IF i > Len(bens) THEN total
    ELSE IF total + bens[i].allocated_tokens > U64_MAX THEN -1
    ELSE TotalAllocated(bens, i + 1, total + bens[i].allocated_tokens)

\* mutant: the handler with decimals tested before amount
initialize_DecimalsFirst(d, a, now) ==
    LET d1 == IF d.authority = DefaultPubkey
              THEN [d EXCEPT !.authority = a.sender] ELSE d
        v == ValidateBeneficiaries(a.beneficiaries, 1, {}, now)
        total_allocated == TotalAllocated(a.beneficiaries, 1, 0)
        d2 == [d1 EXCEPT !.beneficiaries = a.beneficiaries,
                         !.token_amount = a.amount,
                         !.decimals = a.decimals]
    IN  IF d.authority # DefaultPubkey /\ d.authority # a.sender
        THEN Result("UnauthorizedAdmin", d, 0, 0)
        ELSE IF Len(a.beneficiaries) = 0 THEN Result("NoBeneficiaries", d1, 0, 0)
        ELSE IF ~(Len(a.beneficiaries) <= MAX_BENEFICIARIES)
             THEN Result("TooManyBeneficiaries", d1, 0, 0)
        ELSE IF ~(a.decimals <= MAX_DECIMALS) THEN Result("InvalidDecimals", d1, 0, 0)
        ELSE IF ~(a.amount > 0) THEN Result("InvalidAmount", d1, 0, 0)
        ELSE IF v # "Ok" THEN Result(v, d1, 0, 0)
        ELSE IF total_allocated = -1 THEN Result("MathOverflow", d1, 0, 0)
        ELSE IF ~(total_allocated <= a.amount) THEN Result("OverAllocation", d1, 0, 0)
        ELSE IF ~(a.wallet_amount >= a.amount)
             THEN Result("InsufficientBalance", d2, 0, 0)
        ELSE Result("Ok", d2, a.amount, Len(a.beneficiaries))

\* mutant: the handler without the test of the sum against amount
initialize_NoAllocationTest(d, a, now) ==
    LET d1 == IF d.authority = DefaultPubkey
              THEN [d EXCEPT !.authority = a.sender] ELSE d
        v == ValidateBeneficiaries(a.beneficiaries, 1, {}, now)
        total_allocated == TotalAllocated(a.beneficiaries, 1, 0)
        d2 == [d1 EXCEPT !.beneficiaries = a.beneficiaries,
                         !.token_amount = a.amount,
                         !.decimals = a.decimals]
    IN  IF d.authority # DefaultPubkey /\ d.authority # a.sender
        THEN Result("UnauthorizedAdmin", d, 0, 0)
        ELSE IF Len(a.beneficiaries) = 0 THEN Result("NoBeneficiaries", d1, 0, 0)
        ELSE IF ~(Len(a.beneficiaries) <= MAX_BENEFICIARIES)
             THEN Result("TooManyBeneficiaries", d1, 0, 0)
        ELSE IF ~(a.amount > 0) THEN Result("InvalidAmount", d1, 0, 0)
        ELSE IF ~(a.decimals <= MAX_DECIMALS) THEN Result("InvalidDecimals", d1, 0, 0)
        ELSE IF v # "Ok" THEN Result(v, d1, 0, 0)
        ELSE IF total_allocated = -1 THEN Result("MathOverflow", d1, 0, 0)
        ELSE IF ~(a.wallet_amount >= a.amount)
             THEN Result("InsufficientBalance", d2, 0, 0)
        ELSE Result("Ok", d2, a.amount, Len(a.beneficiaries))

\* the handler; a = [sender, beneficiaries, amount, decimals, wallet_amount],
\* wallet_amount being the balance of wallet_to_withdraw_from
initialize(d, a, now) ==
    LET d1 == IF d.authority = DefaultPubkey
              THEN [d EXCEPT !.authority = a.sender] ELSE d
        v == ValidateBeneficiaries(a.beneficiaries, 1, {}, now)
        total_allocated == TotalAllocated(a.beneficiaries, 1, 0)
        d2 == [d1 EXCEPT !.beneficiaries = a.beneficiaries,
                         !.token_amount = a.amount,
                         !.decimals = a.decimals]
    IN  IF d.authority # DefaultPubkey /\ d.authority # a.sender
        THEN Result("UnauthorizedAdmin", d, 0, 0)
        ELSE IF Len(a.beneficiaries) = 0 THEN Result("NoBeneficiaries", d1, 0, 0)
        ELSE IF ~(Len(a.beneficiaries) <= MAX_BENEFICIARIES)
             THEN Result("TooManyBeneficiaries", d1, 0, 0)
        ELSE IF ~(a.amount > 0) THEN Result("InvalidAmount", d1, 0, 0)
        ELSE IF ~(a.decimals <= MAX_DECIMALS) THEN Result("InvalidDecimals", d1, 0, 0)
        ELSE IF v # "Ok" THEN Result(v, d1, 0, 0)
        ELSE IF total_allocated = -1 THEN Result("MathOverflow", d1, 0, 0)
        ELSE IF ~(total_allocated <= a.amount) THEN Result("OverAllocation", d1, 0, 0)
        ELSE IF ~(a.wallet_amount >= a.amount)
             THEN Result("InsufficientBalance", d2, 0, 0)
        ELSE Result("Ok", d2, a.amount, Len(a.beneficiaries))

\* ------------------------------------------------------------------------
\* claim
\* ------------------------------------------------------------------------
\* beneficiaries.iter().position(|b| b.key == sender); 0 stands for None
Position(bens, sender) ==
    IF \E i \in 1..Len(bens) : bens[i].key = sender
    THEN CHOOSE i \in 1..Len(bens) :
            /\ bens[i].key = sender
            /\ \A j \in 1..(i - 1) : bens[j].key # sender
    ELSE 0

\* mutant: months_elapsed rounded up
MonthsElapsed_RoundedUp(beneficiary, now) ==
    IF now >= beneficiary.start_time
    THEN (now - beneficiary.start_time + SECONDS_PER_MONTH - 1) \div SECONDS_PER_MONTH
    ELSE 0

\* months_elapsed
MonthsElapsed(beneficiary, now) ==
    IF now >= beneficiary.start_time
    THEN (now - beneficiary.start_time) \div SECONDS_PER_MONTH
    ELSE 0

\* mutant: unlocked rounded up
Unlocked_RoundedUp(beneficiary, months_vested, vesting_month) ==
    IF months_vested >= vesting_month THEN beneficiary.allocated_tokens
    ELSE IF beneficiary.allocated_tokens * months_vested > U128_MAX THEN -1
    ELSE (beneficiary.allocated_tokens * months_vested + vesting_month - 1)
            \div vesting_month

\* mutant: the month in progress counts as vested
Unlocked_CurrentMonthCounted(beneficiary, months_vested, vesting_month) ==
    IF months_vested + 1 >= vesting_month THEN beneficiary.allocated_tokens
    ELSE IF beneficiary.allocated_tokens * (months_vested + 1) > U128_MAX THEN -1
    ELSE (beneficiary.allocated_tokens * (months_vested + 1)) \div vesting_month

\* unlocked, in u128; -1 stands for the overflow of checked_mul
Unlocked(beneficiary, months_vested, vesting_month) ==
    IF months_vested >= vesting_month THEN beneficiary.allocated_tokens
    ELSE IF beneficiary.allocated_tokens * months_vested > U128_MAX THEN -1
    ELSE (beneficiary.allocated_tokens * months_vested) \div vesting_month

\* mutant: the new total is written to the first entry of the list
claim_FirstEntry(d, escrow_amount, sender, now) ==
    LET index == Position(d.beneficiaries, sender) IN
    IF index = 0 THEN Result("BeneficiaryNotFound", d, 0, 0)
    ELSE
    LET beneficiary == d.beneficiaries[index]
        cliff_months == beneficiary.cliff_months
        total_months == beneficiary.total_months
        vesting_month == total_months - cliff_months
        months_elapsed == MonthsElapsed(beneficiary, now)
        months_vested == Min(months_elapsed - cliff_months, vesting_month)
        unlocked == Unlocked(beneficiary, months_vested, vesting_month)
        claimable == Max(unlocked - beneficiary.claimed_tokens, 0)
        transfer_amount == claimable
        new_claimed == beneficiary.claimed_tokens + transfer_amount
        d1 == [d EXCEPT !.beneficiaries[1].claimed_tokens = new_claimed]
    IN  IF ~(vesting_month > 0) THEN Result("InvalidVestingConfig", d, 0, 0)
        ELSE IF months_elapsed < cliff_months THEN Result("CliffNotReached", d, 0, 0)
        ELSE IF unlocked = -1 THEN Result("MathOverflow", d, 0, 0)
        ELSE IF ~(claimable > 0) THEN Result("ClaimNotAllowed", d, 0, 0)
        ELSE IF claimable > U64_MAX THEN Result("MathOverflow", d, 0, 0)
        ELSE IF ~(escrow_amount >= transfer_amount)
             THEN Result("InsufficientBalance", d, 0, 0)
        ELSE IF new_claimed > U64_MAX THEN Result("MathOverflow", d, 0, 0)
        ELSE Result("Ok", d1, transfer_amount, 0)

\* mutant: claimable is all that is unlocked
claim_ClaimedNotSubtracted(d, escrow_amount, sender, now) ==
    LET index == Position(d.beneficiaries, sender) IN
    IF index = 0 THEN Result("BeneficiaryNotFound", d, 0, 0)
    ELSE
    LET beneficiary == d.beneficiaries[index]
        cliff_months == beneficiary.cliff_months
        total_months == beneficiary.total_months
        vesting_month == total_months - cliff_months
        months_elapsed == MonthsElapsed(beneficiary, now)
        months_vested == Min(months_elapsed - cliff_months, vesting_month)
        unlocked == Unlocked(beneficiary, months_vested, vesting_month)
        claimable == unlocked
        transfer_amount == claimable
        new_claimed == beneficiary.claimed_tokens + transfer_amount
        d1 == [d EXCEPT !.beneficiaries[index].claimed_tokens = new_claimed]
    IN  IF ~(vesting_month > 0) THEN Result("InvalidVestingConfig", d, 0, 0)
        ELSE IF months_elapsed < cliff_months THEN Result("CliffNotReached", d, 0, 0)
        ELSE IF unlocked = -1 THEN Result("MathOverflow", d, 0, 0)
        ELSE IF ~(claimable > 0) THEN Result("ClaimNotAllowed", d, 0, 0)
        ELSE IF claimable > U64_MAX THEN Result("MathOverflow", d, 0, 0)
        ELSE IF ~(escrow_amount >= transfer_amount)
             THEN Result("InsufficientBalance", d, 0, 0)
        ELSE IF new_claimed > U64_MAX THEN Result("MathOverflow", d, 0, 0)
        ELSE Result("Ok", d1, transfer_amount, 0)

\* the handler; escrow_amount is escrow_wallet.amount
claim(d, escrow_amount, sender, now) ==
    LET index == Position(d.beneficiaries, sender) IN
    IF index = 0 THEN Result("BeneficiaryNotFound", d, 0, 0)
    ELSE
    LET beneficiary == d.beneficiaries[index]
        cliff_months == beneficiary.cliff_months
        total_months == beneficiary.total_months
        vesting_month == total_months - cliff_months
        months_elapsed == MonthsElapsed(beneficiary, now)
        months_vested == Min(months_elapsed - cliff_months, vesting_month)
        unlocked == Unlocked(beneficiary, months_vested, vesting_month)
        claimable == Max(unlocked - beneficiary.claimed_tokens, 0)
        transfer_amount == claimable
        new_claimed == beneficiary.claimed_tokens + transfer_amount
        d1 == [d EXCEPT !.beneficiaries[index].claimed_tokens = new_claimed]
    IN  IF ~(vesting_month > 0) THEN Result("InvalidVestingConfig", d, 0, 0)
        ELSE IF months_elapsed < cliff_months THEN Result("CliffNotReached", d, 0, 0)
        ELSE IF unlocked = -1 THEN Result("MathOverflow", d, 0, 0)
        ELSE IF ~(claimable > 0) THEN Result("ClaimNotAllowed", d, 0, 0)
        ELSE IF claimable > U64_MAX THEN Result("MathOverflow", d, 0, 0)
        ELSE IF ~(escrow_amount >= transfer_amount)
             THEN Result("InsufficientBalance", d, 0, 0)
        ELSE IF new_claimed > U64_MAX THEN Result("MathOverflow", d, 0, 0)
        ELSE Result("Ok", d1, transfer_amount, 0)

\* ------------------------------------------------------------------------
\* withdraw
\* ------------------------------------------------------------------------
\* earliest_withdraw_time of one beneficiary
EarliestWithdrawTime(beneficiary) ==
    LET cliff_end_time ==
            beneficiary.start_time + beneficiary.cliff_months * SECONDS_PER_MONTH
        total_vesting_period ==
            beneficiary.start_time + beneficiary.total_months * SECONDS_PER_MONTH
    IN  Max(cliff_end_time + GRACE_PERIOD, total_vesting_period + GRACE_PERIOD)

\* mutant: the grace period counts as passed at its last second
GracePassed_Inclusive(beneficiary, now) == now >= EarliestWithdrawTime(beneficiary)

\* the grace-period test of the loop
GracePassed(beneficiary, now) == now > EarliestWithdrawTime(beneficiary)

\* mutant: the loop without the test unclaimed_tokens > 0
RECURSIVE WithdrawScan_NoUnclaimedTest(_, _, _, _, _)
WithdrawScan_NoUnclaimedTest(bens, i, total_unclaimed, processed, now) ==
    IF i > Len(bens)
    THEN [err |-> "Ok", bens |-> bens, total |-> total_unclaimed, n |-> processed]
    ELSE
    LET beneficiary == bens[i]
        unclaimed_tokens ==
            Max(beneficiary.allocated_tokens - beneficiary.claimed_tokens, 0)
    IN  IF GracePassed(beneficiary, now)
        THEN IF total_unclaimed + unclaimed_tokens > U64_MAX
             THEN [err |-> "MathOverflow", bens |-> bens,
                   total |-> total_unclaimed, n |-> processed]
             ELSE WithdrawScan_NoUnclaimedTest(
                    [bens EXCEPT ![i].claimed_tokens = beneficiary.allocated_tokens],
                    i + 1, total_unclaimed + unclaimed_tokens, processed + 1, now)
        ELSE WithdrawScan_NoUnclaimedTest(bens, i + 1, total_unclaimed, processed, now)

\* mutant: the loop adds up the unclaimed tokens and leaves claimed_tokens
RECURSIVE WithdrawScan_NotMarked(_, _, _, _, _)
WithdrawScan_NotMarked(bens, i, total_unclaimed, processed, now) ==
    IF i > Len(bens)
    THEN [err |-> "Ok", bens |-> bens, total |-> total_unclaimed, n |-> processed]
    ELSE
    LET beneficiary == bens[i]
        unclaimed_tokens ==
            Max(beneficiary.allocated_tokens - beneficiary.claimed_tokens, 0)
    IN  IF GracePassed(beneficiary, now) /\ unclaimed_tokens > 0
        THEN IF total_unclaimed + unclaimed_tokens > U64_MAX
             THEN [err |-> "MathOverflow", bens |-> bens,
                   total |-> total_unclaimed, n |-> processed]
             ELSE WithdrawScan_NotMarked(bens, i + 1,
                    total_unclaimed + unclaimed_tokens, processed + 1, now)
        ELSE WithdrawScan_NotMarked(bens, i + 1, total_unclaimed, processed, now)

\* mutant: the loop sweeps the whole allocation of a beneficiary
RECURSIVE WithdrawScan_SweepsAllocation(_, _, _, _, _)
WithdrawScan_SweepsAllocation(bens, i, total_unclaimed, processed, now) ==
    IF i > Len(bens)
    THEN [err |-> "Ok", bens |-> bens, total |-> total_unclaimed, n |-> processed]
    ELSE
    LET beneficiary == bens[i]
        unclaimed_tokens == beneficiary.allocated_tokens
    IN  IF GracePassed(beneficiary, now) /\ unclaimed_tokens > 0
        THEN IF total_unclaimed + unclaimed_tokens > U64_MAX
             THEN [err |-> "MathOverflow", bens |-> bens,
                   total |-> total_unclaimed, n |-> processed]
             ELSE WithdrawScan_SweepsAllocation(
                    [bens EXCEPT ![i].claimed_tokens = beneficiary.allocated_tokens],
                    i + 1, total_unclaimed + unclaimed_tokens, processed + 1, now)
        ELSE WithdrawScan_SweepsAllocation(bens, i + 1, total_unclaimed, processed, now)

\* the loop "for i in 0..beneficiaries.len()" from index i on, with the
\* beneficiaries as updated so far, total_unclaimed and the processed count
RECURSIVE WithdrawScan(_, _, _, _, _)
WithdrawScan(bens, i, total_unclaimed, processed, now) ==
    IF i > Len(bens)
    THEN [err |-> "Ok", bens |-> bens, total |-> total_unclaimed, n |-> processed]
    ELSE
    LET beneficiary == bens[i]
        unclaimed_tokens ==
            Max(beneficiary.allocated_tokens - beneficiary.claimed_tokens, 0)
    IN  IF GracePassed(beneficiary, now) /\ unclaimed_tokens > 0
        THEN IF total_unclaimed + unclaimed_tokens > U64_MAX
             THEN [err |-> "MathOverflow", bens |-> bens,
                   total |-> total_unclaimed, n |-> processed]
             ELSE WithdrawScan(
                    [bens EXCEPT ![i].claimed_tokens = beneficiary.allocated_tokens],
                    i + 1, total_unclaimed + unclaimed_tokens, processed + 1, now)
        ELSE WithdrawScan(bens, i + 1, total_unclaimed, processed, now)

\* mutant: the handler without require!(total_unclaimed > 0)
withdraw_NoEmptyTest(d, escrow_amount, admin, now) ==
    LET scan == WithdrawScan(d.beneficiaries, 1, 0, 0, now)
        d1 == [d EXCEPT !.beneficiaries = scan.bens]
    IN  IF ~(d.authority = admin) THEN Result("UnauthorizedAdmin", d, 0, 0)
        ELSE IF scan.err # "Ok" THEN Result(scan.err, d1, 0, scan.n)
        ELSE IF ~(escrow_amount >= scan.total)
             THEN Result("InsufficientBalance", d1, 0, scan.n)
        ELSE Result("Ok", d1, scan.total, scan.n)

\* the handler; admin is the signer, escrow_amount is escrow_wallet.amount
withdraw(d, escrow_amount, admin, now) ==
    LET scan == WithdrawScan(d.beneficiaries, 1, 0, 0, now)
        d1 == [d EXCEPT !.beneficiaries = scan.bens]
    IN  IF ~(d.authority = admin) THEN Result("UnauthorizedAdmin", d, 0, 0)
        ELSE IF scan.err # "Ok" THEN Result(scan.err, d1, 0, scan.n)
        ELSE IF ~(scan.total > 0) THEN Result("NoUnclaimedTokens", d1, 0, scan.n)
        ELSE IF ~(escrow_amount >= scan.total)
             THEN Result("InsufficientBalance", d1, 0, scan.n)
        ELSE Result("Ok", d1, scan.total, scan.n)

\* ------------------------------------------------------------------------
\* change_admin
\* ------------------------------------------------------------------------
\* mutant: change_admin without the test of the signer
change_admin_AnySigner(d, current_admin, new_admin) ==
    IF ~(new_admin # current_admin) THEN Result("SameAdmin", d, 0, 0)
    ELSE IF ~(new_admin # DefaultPubkey) THEN Result("InvalidAddress", d, 0, 0)
    ELSE Result("Ok", [d EXCEPT !.authority = new_admin], 0, 0)

\* mutant: change_admin without the constraint new_admin != current_admin
change_admin_NoSameAdminTest(d, current_admin, new_admin) ==
    IF ~(d.authority = current_admin) THEN Result("UnauthorizedAdmin", d, 0, 0)
    ELSE IF ~(new_admin # DefaultPubkey) THEN Result("InvalidAddress", d, 0, 0)
    ELSE Result("Ok", [d EXCEPT !.authority = new_admin], 0, 0)

\* mutant: change_admin without the constraint new_admin != Pubkey::default()
change_admin_NoNullTest(d, current_admin, new_admin) ==
    IF ~(d.authority = current_admin) THEN Result("UnauthorizedAdmin", d, 0, 0)
    ELSE IF ~(new_admin # current_admin) THEN Result("SameAdmin", d, 0, 0)
    ELSE Result("Ok", [d EXCEPT !.authority = new_admin], 0, 0)

\* the constraints of the ChangeAdmin accounts, then the handler
change_admin(d, current_admin, new_admin) ==
    IF ~(d.authority = current_admin) THEN Result("UnauthorizedAdmin", d, 0, 0)
    ELSE IF ~(new_admin # current_admin) THEN Result("SameAdmin", d, 0, 0)
    ELSE IF ~(new_admin # DefaultPubkey) THEN Result("InvalidAddress", d, 0, 0)
    ELSE Result("Ok", [d EXCEPT !.authority = new_admin], 0, 0)

\* ------------------------------------------------------------------------
\* Inputs of initialize
\* ------------------------------------------------------------------------
BaseBen == Beneficiary(1, 10, 0, T0, 1, 3)

\* the terms (start_time, cliff_months, total_months) each key is offered:
\* a cliff; no cliff, starting as late as allowed; the shortest schedule
Terms(k) ==
    IF k = 1 THEN { <<T0, 1, 3>> }
    ELSE { <<T0 + MAX_START_DELAY, 0, 3>>, <<T0, 0, 1>> }

\* well-formed beneficiaries; claimed_tokens is whatever the caller sends
GoodBens ==
    UNION { { Beneficiary(k, 10, c, t[1], t[2], t[3]) : c \in {0, 11}, t \in Terms(k) } :
            k \in {1, 2} }

\* beneficiaries that break one rule of the validation each
BadBens ==
    { [BaseBen EXCEPT !.allocated_tokens = 0],
      [BaseBen EXCEPT !.start_time = T0 - 1],
      [BaseBen EXCEPT !.start_time = T0 + MAX_START_DELAY + 1],
      [BaseBen EXCEPT !.cliff_months = 0, !.total_months = 0],
      [BaseBen EXCEPT !.cliff_months = 49, !.total_months = 98],
      [BaseBen EXCEPT !.cliff_months = 3, !.total_months = 3],
      [BaseBen EXCEPT !.cliff_months = 2, !.total_months = 3] }

BenChoices == GoodBens \cup BadBens

\* n beneficiaries with the keys 1..n
LongList(n) == [i \in 1..n |-> [BaseBen EXCEPT !.key = i]]

\* lists that need the whole range of u64: the longest list and one beyond
\* it, the longest cliff, and allocations that reach U64_MAX
WideLists ==
    { LongList(MAX_BENEFICIARIES), LongList(MAX_BENEFICIARIES + 1),
      << [BaseBen EXCEPT !.cliff_months = 48, !.total_months = 96] >>,
      << [BaseBen EXCEPT !.allocated_tokens = U64_MAX] >>,
      << [BaseBen EXCEPT !.allocated_tokens = U64_MAX], [BaseBen EXCEPT !.key = 2] >> }

\* lists of three that break two rules at different entries, and a list whose
\* beneficiary is sent with claimed_tokens equal to its allocation, or to
\* half of it, or with the largest claimed_tokens, and a list whose
\* beneficiary starts at the end of the range of times
OtherLists ==
    { << BaseBen, BaseBen, [BaseBen EXCEPT !.key = 2, !.allocated_tokens = 0] >>,
      << BaseBen, [BaseBen EXCEPT !.key = 2, !.allocated_tokens = 0], BaseBen >>,
      << [BaseBen EXCEPT !.claimed_tokens = 10] >>,
      << [BaseBen EXCEPT !.claimed_tokens = 5] >>,
      << [BaseBen EXCEPT !.claimed_tokens = U64_MAX] >>,
      << [BaseBen EXCEPT !.start_time = I64_MAX - SECONDS_PER_MONTH] >> }

InitializeArgs ==
    [sender : {3},
     beneficiaries : UNION { [1..n -> BenChoices] : n \in 0..MaxLen },
     amount : {0, 10, 20},
     decimals : {MAX_DECIMALS, MAX_DECIMALS + 1},
     wallet_amount : {10, 20}]
    \cup
    [sender : {3},
     beneficiaries : WideLists \cup OtherLists,
     amount : {U64_MAX},
     decimals : {MAX_DECIMALS},
     wallet_amount : {U64_MAX}]

\* ------------------------------------------------------------------------
\* State
\* ------------------------------------------------------------------------
VARIABLES
    args,           \* the arguments and accounts the admin sends to initialize
    exists,         \* the data account and the escrow wallet have been created
    data_account,   \* DataAccount
    escrow_amount,  \* escrow_wallet.amount
    now,            \* Clock::get()?.unix_timestamp
    transferred,    \* per key, the tokens claims have paid to it and
                    \* withdraws have swept on its behalf
    swept,          \* keys of the beneficiaries whose unclaimed tokens a
                    \* withdraw has sent to the admin
    last            \* the last instruction: its signer, its argument (the
                    \* new_admin of change_admin), result and transfer

vars == <<args, exists, data_account, escrow_amount, now, swept, transferred, last>>

Last(op, caller, arg, r) ==
    [op |-> op, caller |-> caller, arg |-> arg, err |-> r.err,
     amount |-> IF r.err = "Ok" THEN r.amount ELSE 0,
     processed |-> r.processed]

NoResult == Result("Ok", DataAccountDefault, 0, 0)

Init ==
    /\ args \in InitializeArgs
    /\ exists = FALSE
    /\ data_account = DataAccountDefault
    /\ escrow_amount = 0
    /\ now = T0
    /\ swept = {}
    /\ transferred =
          [k \in Callers \cup { b.key : b \in Range(args.beneficiaries) } |-> 0]
    /\ last = Last("none", DefaultPubkey, DefaultPubkey, NoResult)

\* instants the clock is observed at: for each beneficiary the month
\* boundaries of its schedule, the second before its cliff ends, the last
\* second of the month after its cliff, and the end of its grace period and
\* the second after
Instants(bens) ==
    UNION { { bens[i].start_time + k * SECONDS_PER_MONTH :
                k \in 0..bens[i].total_months }
            \cup { bens[i].start_time + bens[i].cliff_months * SECONDS_PER_MONTH - 1,
                   bens[i].start_time
                     + (bens[i].cliff_months + 1) * SECONDS_PER_MONTH - 1,
                   bens[i].start_time
                     + (bens[i].total_months + 6) * SECONDS_PER_MONTH,
                   bens[i].start_time
                     + (bens[i].total_months + 6) * SECONDS_PER_MONTH + 1 } :
            i \in 1..Len(bens) }

\* the clock advances
Tick ==
    /\ exists
    /\ \E t \in Instants(data_account.beneficiaries) :
          /\ t > now
          /\ now' = t
    /\ last' = Last("tick", DefaultPubkey, DefaultPubkey, NoResult)
    /\ UNCHANGED <<args, exists, data_account, escrow_amount, swept, transferred>>

\* mutant: the accounts declared init_if_needed, the handler runs on the
\* schedule that is already there
Initialize_IfNeeded(sender, ok) ==
    LET a == [args EXCEPT !.sender = sender]
        r == TokenTransfer(initialize(data_account, a, now), ok)
    IN  /\ exists \/ sender = args.sender
        /\ last' = Last("initialize", sender, DefaultPubkey, r)
        /\ IF r.err = "Ok"
           THEN /\ exists' = TRUE
                /\ data_account' = r.data
                /\ escrow_amount' = escrow_amount + r.amount
           ELSE UNCHANGED <<exists, data_account, escrow_amount>>
        /\ UNCHANGED <<args, now, swept, transferred>>

\* initialize: the init constraints create both accounts, which fails when
\* they exist; then the handler runs on the zeroed data account. The admin
\* of args sends it; once the accounts exist any signer may try again
Initialize(sender, ok) ==
    LET a == [args EXCEPT !.sender = sender]
        r == IF exists
             THEN Result("AccountAlreadyInUse", data_account, 0, 0)
             ELSE TokenTransfer(initialize(DataAccountDefault, a, now), ok)
    IN  /\ exists \/ sender = args.sender
        /\ last' = Last("initialize", sender, DefaultPubkey, r)
        /\ IF r.err = "Ok"
           THEN /\ exists' = TRUE
                /\ data_account' = r.data
                /\ escrow_amount' = r.amount
           ELSE UNCHANGED <<exists, data_account, escrow_amount>>
        /\ UNCHANGED <<args, now, swept, transferred>>

Claim(sender, ok) ==
    LET r == TokenTransfer(claim(data_account, escrow_amount, sender, now), ok)
    IN  /\ exists
        /\ last' = Last("claim", sender, DefaultPubkey, r)
        /\ IF r.err = "Ok"
           THEN /\ data_account' = r.data
                /\ escrow_amount' = escrow_amount - r.amount
                /\ transferred' = [transferred EXCEPT ![sender] = @ + r.amount]
           ELSE UNCHANGED <<data_account, escrow_amount, transferred>>
        /\ UNCHANGED <<args, exists, now, swept>>

\* the unclaimed_tokens the loop of withdraw adds to total_unclaimed for the
\* entries of one key
RECURSIVE UnclaimedOf(_, _, _)
UnclaimedOf(bs, k, t) ==
    IF bs = <<>> THEN 0
    ELSE (IF Head(bs).key = k /\ t > EarliestWithdrawTime(Head(bs))
          THEN Max(Head(bs).allocated_tokens - Head(bs).claimed_tokens, 0)
          ELSE 0)
         + UnclaimedOf(Tail(bs), k, t)

Withdraw(admin, ok) ==
    LET r == TokenTransfer(withdraw(data_account, escrow_amount, admin, now), ok)
    IN  /\ exists
        /\ last' = Last("withdraw", admin, DefaultPubkey, r)
        /\ IF r.err = "Ok"
           THEN /\ data_account' = r.data
                /\ escrow_amount' = escrow_amount - r.amount
                /\ swept' = swept \cup
                     { b.key : b \in
                         { c \in Range(data_account.beneficiaries) :
                             /\ now > EarliestWithdrawTime(c)
                             /\ c.allocated_tokens > c.claimed_tokens } }
                /\ transferred' =
                     [k \in DOMAIN transferred |->
                        transferred[k] + UnclaimedOf(data_account.beneficiaries, k, now)]
           ELSE UNCHANGED <<data_account, escrow_amount, swept, transferred>>
        /\ UNCHANGED <<args, exists, now>>

ChangeAdmin(current_admin, new_admin) ==
    LET r == change_admin(data_account, current_admin, new_admin)
    IN  /\ exists
        /\ last' = Last("change_admin", current_admin, new_admin, r)
        /\ IF r.err = "Ok"
           THEN data_account' = r.data
           ELSE UNCHANGED data_account
        /\ UNCHANGED <<args, exists, escrow_amount, now, swept, transferred>>

Next ==
    \/ \E sender \in Callers, ok \in BOOLEAN : Initialize(sender, ok)
    \/ Tick
    \/ \E sender \in Callers, ok \in BOOLEAN : Claim(sender, ok)
    \/ \E admin \in Callers, ok \in BOOLEAN : Withdraw(admin, ok)
    \/ \E current_admin \in Callers, new_admin \in {DefaultPubkey, 2, 3} :
          ChangeAdmin(current_admin, new_admin)

Spec == Init /\ [][Next]_vars

\* ------------------------------------------------------------------------
\* Properties
\* ------------------------------------------------------------------------
Bens == data_account.beneficiaries
BenIndexes == 1..Len(Bens)

\* the last instruction, as seen in the state it leaves
Did(op) == last.op = op
Succeeded(op) == last.op = op /\ last.err = "Ok"
Failed(op, e) == last.op = op /\ last.err = e

\* nothing of the schedule or the escrow changes in this step
NoMutation ==
    /\ data_account' = data_account
    /\ escrow_amount' = escrow_amount
    /\ exists' = exists

\* the end of the cliff and of the grace period of a beneficiary, as the
\* specification writes them
CliffEnd(b) == b.start_time + b.cliff_months * SECONDS_PER_MONTH
GraceBound(b) ==
    b.start_time + b.total_months * SECONDS_PER_MONTH + 6 * SECONDS_PER_MONTH

\* the terms of a beneficiary, which no instruction changes
TermsOf(b) ==
    <<b.key, b.allocated_tokens, b.start_time, b.cliff_months, b.total_months>>

\* C1: in every state of a schedule every beneficiary has
\* claimed_tokens <= allocated_tokens
C1_ClaimedAtMostAllocated ==
    exists => \A i \in BenIndexes :
                 Bens[i].claimed_tokens <= Bens[i].allocated_tokens

\* C2: across every step the claimed_tokens of every beneficiary is at least
\* what it was
C2_ClaimedNeverDecreases ==
    [][\A i \in BenIndexes :
          /\ Len(Bens') >= i
          /\ Bens'[i].claimed_tokens >= Bens[i].claimed_tokens]_vars

\* a withdraw has succeeded on a schedule in which some beneficiary's
\* claimed_tokens exceeds its allocation
C2_Witness ==
    /\ Succeeded("withdraw")
    /\ \E i \in BenIndexes : Bens[i].claimed_tokens > Bens[i].allocated_tokens
    /\ \E i \in BenIndexes : Bens[i].key \in swept

\* what the specification asks of the arguments of initialize at time t
SpecValidBeneficiary(b, t) ==
    /\ b.total_months >= 1
    /\ b.cliff_months <= 48
    /\ b.cliff_months < b.total_months
    /\ b.allocated_tokens > 0
    /\ t <= b.start_time
    /\ b.start_time <= t + 365 * 24 * 60 * 60
    /\ (b.cliff_months # 0 => b.total_months % b.cliff_months = 0)

RECURSIVE SpecSum(_)
SpecSum(bs) ==
    IF bs = <<>> THEN 0 ELSE Head(bs).allocated_tokens + SpecSum(Tail(bs))

SpecValidInput(a, t) ==
    /\ Len(a.beneficiaries) \in 1..50
    /\ \A i, j \in 1..Len(a.beneficiaries) :
          i # j => a.beneficiaries[i].key # a.beneficiaries[j].key
    /\ a.amount > 0
    /\ a.decimals <= 9
    /\ \A i \in 1..Len(a.beneficiaries) : SpecValidBeneficiary(a.beneficiaries[i], t)
    /\ SpecSum(a.beneficiaries) <= a.amount

\* C3: an initialize that creates the schedule had valid arguments and stores
\* them; an initialize with arguments that break a rule fails, creates no
\* schedule and moves no tokens to the escrow
C3_InitializeOnlyValid ==
    [][(last'.op = "initialize" /\ ~exists) =>
          /\ exists' =>
                /\ last'.err = "Ok"
                /\ SpecValidInput(args, now)
                /\ data_account'.beneficiaries = args.beneficiaries
                /\ data_account'.token_amount = args.amount
                /\ data_account'.decimals = args.decimals
          /\ ~SpecValidInput(args, now) =>
                /\ last'.err # "Ok"
                /\ NoMutation
                /\ escrow_amount' = 0]_vars

\* an initialize of two beneficiaries with the same key has been rejected and
\* there is no schedule
C3_Witness ==
    /\ Did("initialize")
    /\ last.err # "Ok"
    /\ ~exists
    /\ escrow_amount = 0
    /\ Len(args.beneficiaries) = 2
    /\ args.beneficiaries[1].key = args.beneficiaries[2].key
    /\ \A i \in 1..2 : SpecValidBeneficiary(args.beneficiaries[i], now)

\* C4, as claimed: a claim by a beneficiary before start_time + cliff_months * M
\* fails with CliffNotReached and changes nothing, for every cliff_months
C4_Original ==
    [][\A i \in BenIndexes :
          (/\ last'.op = "claim"
           /\ last'.caller = Bens[i].key
           /\ now < CliffEnd(Bens[i]))
          => (last'.err = "CliffNotReached" /\ NoMutation)]_vars

\* C4, amended: such a claim fails and changes nothing; its error is
\* CliffNotReached when cliff_months > 0 and ClaimNotAllowed when
\* cliff_months = 0
C4_Amended ==
    [][\A i \in BenIndexes :
          (/\ last'.op = "claim"
           /\ last'.caller = Bens[i].key
           /\ now < CliffEnd(Bens[i]))
          => /\ last'.err = IF Bens[i].cliff_months > 0
                            THEN "CliffNotReached" ELSE "ClaimNotAllowed"
             /\ NoMutation]_vars

\* a beneficiary without a cliff has claimed before its start_time
C4_Witness ==
    /\ Failed("claim", "ClaimNotAllowed")
    /\ \E i \in BenIndexes :
          /\ Bens[i].key = last.caller
          /\ Bens[i].cliff_months = 0
          /\ now < CliffEnd(Bens[i])

\* unlocked(t) of the specification for a beneficiary past its cliff
SpecMonthsVested(b, t) ==
    LET elapsed == (t - b.start_time) \div SECONDS_PER_MONTH
        span == b.total_months - b.cliff_months
    IN  IF elapsed - b.cliff_months < span THEN elapsed - b.cliff_months ELSE span

SpecUnlocked(b, t) ==
    LET span == b.total_months - b.cliff_months
        m == SpecMonthsVested(b, t)
    IN  IF m = span THEN b.allocated_tokens
        ELSE (b.allocated_tokens * m) \div span

\* C5: a successful claim pays unlocked(now) - claimed_tokens out of the
\* escrow and leaves claimed_tokens = unlocked(now); from the end of the
\* vesting on that is allocated_tokens
C5_ClaimPaysUnlocked ==
    [][\A i \in BenIndexes :
          (/\ last'.op = "claim"
           /\ last'.err = "Ok"
           /\ last'.caller = Bens[i].key)
          => /\ last'.amount = SpecUnlocked(Bens[i], now) - Bens[i].claimed_tokens
             /\ last'.amount > 0
             /\ escrow_amount' = escrow_amount - last'.amount
             /\ Bens'[i].claimed_tokens = SpecUnlocked(Bens[i], now)
             /\ (now >= Bens[i].start_time
                          + Bens[i].total_months * SECONDS_PER_MONTH
                 => Bens'[i].claimed_tokens = Bens[i].allocated_tokens)]_vars

\* a claim in the middle of the vesting has paid an amount rounded down
C5_Witness ==
    /\ Succeeded("claim")
    /\ \E i \in BenIndexes :
          /\ Bens[i].key = last.caller
          /\ Bens[i].claimed_tokens = SpecUnlocked(Bens[i], now)
          /\ Bens[i].claimed_tokens < Bens[i].allocated_tokens
          /\ (Bens[i].allocated_tokens * SpecMonthsVested(Bens[i], now))
                % (Bens[i].total_months - Bens[i].cliff_months) # 0

\* C6: a successful withdraw changes claimed_tokens only of beneficiaries
\* with now > start_time + total_months*M + 6*M, and changes no other field
\* of any beneficiary
C6_SweepOnlyPastGrace ==
    [][(last'.op = "withdraw" /\ last'.err = "Ok") =>
          /\ Len(Bens') = Len(Bens)
          /\ \A i \in BenIndexes :
                /\ TermsOf(Bens'[i]) = TermsOf(Bens[i])
                /\ (Bens'[i].claimed_tokens # Bens[i].claimed_tokens
                    => now > GraceBound(Bens[i]))]_vars

\* a withdraw has succeeded at the very end of the grace period of a
\* beneficiary that still has unclaimed tokens
C6_Witness ==
    /\ Succeeded("withdraw")
    /\ \E i \in BenIndexes :
          /\ now = GraceBound(Bens[i])
          /\ Bens[i].claimed_tokens < Bens[i].allocated_tokens
          /\ Bens[i].key \notin swept

RECURSIVE SpecUnclaimedPastGrace(_, _)
SpecUnclaimedPastGrace(bs, t) ==
    IF bs = <<>> THEN 0
    ELSE (IF t > GraceBound(Head(bs))
          THEN Head(bs).allocated_tokens - Head(bs).claimed_tokens ELSE 0)
         + SpecUnclaimedPastGrace(Tail(bs), t)

\* C7: a successful withdraw leaves claimed_tokens = allocated_tokens for
\* every beneficiary past its grace bound, pays the admin the sum of their
\* prior allocated_tokens - claimed_tokens out of the escrow, and reports as
\* processed the number of beneficiaries whose claimed_tokens changed
C7_SweepSetsAllocated ==
    [][(last'.op = "withdraw" /\ last'.err = "Ok") =>
          /\ \A i \in BenIndexes :
                now > GraceBound(Bens[i])
                => Bens'[i].claimed_tokens = Bens[i].allocated_tokens
          /\ last'.amount = SpecUnclaimedPastGrace(Bens, now)
          /\ escrow_amount' = escrow_amount - last'.amount
          /\ last'.processed =
                Cardinality({ i \in BenIndexes :
                    Bens'[i].claimed_tokens # Bens[i].claimed_tokens })]_vars

\* C8: a withdraw by the authority when no beneficiary past its grace bound
\* has allocated_tokens > claimed_tokens fails with NoUnclaimedTokens and
\* changes nothing
C8_NothingToSweep ==
    [][(/\ last'.op = "withdraw"
        /\ last'.caller = data_account.authority
        /\ ~ \E i \in BenIndexes :
                /\ now > GraceBound(Bens[i])
                /\ Bens[i].allocated_tokens > Bens[i].claimed_tokens)
       => (last'.err = "NoUnclaimedTokens" /\ NoMutation)]_vars

\* the authority's withdraw has failed with NoUnclaimedTokens although a
\* beneficiary is past its grace bound
C8_Witness ==
    /\ Failed("withdraw", "NoUnclaimedTokens")
    /\ last.caller = data_account.authority
    /\ \E i \in BenIndexes : now > GraceBound(Bens[i])

\* C9: every claim of a beneficiary that a successful withdraw has swept
\* fails with ClaimNotAllowed and transfers nothing
C9_SweptCannotClaim ==
    (Did("claim") /\ last.caller \in swept)
    => (last.err = "ClaimNotAllowed" /\ last.amount = 0)

\* a swept beneficiary has claimed
C9_Witness ==
    /\ Did("claim")
    /\ last.caller \in swept
    /\ \E i \in BenIndexes : Bens[i].key = last.caller

\* C10: the authority of a new schedule is the signer of initialize; withdraw
\* and change_admin by anyone else fail with UnauthorizedAdmin and change
\* nothing, and by the authority they pass that check; a successful
\* change_admin replaces the authority by another key
C10_OnlyAuthority ==
    [][/\ (last'.op = "initialize" /\ last'.err = "Ok")
          => data_account'.authority = args.sender
       /\ last'.op \in {"withdraw", "change_admin"}
          => IF last'.caller = data_account.authority
             THEN last'.err # "UnauthorizedAdmin"
             ELSE last'.err = "UnauthorizedAdmin" /\ NoMutation
       /\ (last'.op = "change_admin" /\ last'.err = "Ok")
          => /\ data_account'.authority # data_account.authority
             /\ data_account'.authority # last'.caller]_vars

\* the creator's withdraw has been rejected after the authority changed
C10_Witness ==
    /\ Failed("withdraw", "UnauthorizedAdmin")
    /\ last.caller = args.sender
    /\ data_account.authority # args.sender

\* C11: change_admin by the authority fails with SameAdmin when new_admin
\* is the authority and with InvalidAddress when it is the null key, and
\* changes nothing; with any other new_admin it succeeds, the authority
\* becomes new_admin and beneficiaries, token_amount and the escrow stay
C11_ChangeAdminOutcome ==
    [][(last'.op = "change_admin" /\ last'.caller = data_account.authority) =>
          IF last'.arg = data_account.authority
          THEN last'.err = "SameAdmin" /\ NoMutation
          ELSE IF last'.arg = 0
          THEN last'.err = "InvalidAddress" /\ NoMutation
          ELSE /\ last'.err = "Ok"
               /\ data_account'.authority = last'.arg
               /\ data_account'.beneficiaries = data_account.beneficiaries
               /\ data_account'.token_amount = data_account.token_amount
               /\ escrow_amount' = escrow_amount]_vars

\* the authority has asked to hand the schedule to itself and was refused
C11_Witness ==
    /\ Failed("change_admin", "SameAdmin")
    /\ last.caller = data_account.authority
    /\ last.arg = data_account.authority

\* C12: the authority of an existing schedule is never the null key
C12_AuthorityNotNull ==
    exists => data_account.authority # 0

\* the authority has asked to hand the schedule to the null key
C12_Witness ==
    /\ Did("change_admin")
    /\ last.caller = data_account.authority
    /\ last.arg = 0
    /\ exists

\* the error of the first rule a beneficiary breaks, in the order of the
\* specification
SpecBeneficiaryError(b, t) ==
    CASE b.total_months < 1 -> "InvalidVestingPeriod"
      [] b.total_months >= 1 /\ b.cliff_months > 48 -> "CliffTooLong"
      [] b.total_months >= 1 /\ b.cliff_months <= 48
         /\ b.cliff_months >= b.total_months -> "InvalidCliffPeriod"
      [] OTHER ->
           IF b.allocated_tokens = 0 THEN "InvalidAllocation"
           ELSE IF b.start_time < t THEN "InvalidStartTime"
           ELSE IF b.start_time > t + 365 * 24 * 60 * 60 THEN "StartTimeTooFar"
           ELSE IF b.cliff_months # 0 /\ b.total_months % b.cliff_months # 0
                THEN "InvalidVestingConfig"
           ELSE "Ok"

SpecRepeatsEarlier(bs, i) == \E j \in 1..(i - 1) : bs[j].key = bs[i].key

\* rules 1 and 2: the list and the scalar arguments
SpecScalarError(a) ==
    IF Len(a.beneficiaries) = 0 THEN "NoBeneficiaries"
    ELSE IF Len(a.beneficiaries) > 50 THEN "TooManyBeneficiaries"
    ELSE IF a.amount = 0 THEN "InvalidAmount"
    ELSE IF a.decimals > 9 THEN "InvalidDecimals"
    ELSE "Ok"

\* rule 5: the sum of the allocations
SpecSumError(a) ==
    IF SpecSum(a.beneficiaries) > U64_MAX THEN "MathOverflow"
    ELSE IF SpecSum(a.beneficiaries) > a.amount THEN "OverAllocation"
    ELSE "Ok"

\* the first violated rule when rule 3 is applied to the whole list before
\* rule 4
SpecFirstError(a, t) ==
    LET bs == a.beneficiaries
        bad == { i \in 1..Len(bs) : SpecBeneficiaryError(bs[i], t) # "Ok" }
    IN  IF SpecScalarError(a) # "Ok" THEN SpecScalarError(a)
        ELSE IF bad # {}
        THEN SpecBeneficiaryError(bs[CHOOSE i \in bad : \A j \in bad : i <= j], t)
        ELSE IF \E i \in 1..Len(bs) : SpecRepeatsEarlier(bs, i)
        THEN "DuplicateBeneficiary"
        ELSE SpecSumError(a)

\* the first violated rule when rules 3 and 4 are applied together, entry
\* by entry
SpecFirstErrorByEntry(a, t) ==
    LET bs == a.beneficiaries
        bad == { i \in 1..Len(bs) :
                   \/ SpecBeneficiaryError(bs[i], t) # "Ok"
                   \/ SpecRepeatsEarlier(bs, i) }
        first == CHOOSE i \in bad : \A j \in bad : i <= j
    IN  IF SpecScalarError(a) # "Ok" THEN SpecScalarError(a)
        ELSE IF bad # {}
        THEN IF SpecBeneficiaryError(bs[first], t) # "Ok"
             THEN SpecBeneficiaryError(bs[first], t)
             ELSE "DuplicateBeneficiary"
        ELSE SpecSumError(a)

\* C13, as claimed: an initialize whose arguments break rules fails with the
\* error of the first broken rule in the order 1 list, 2 amount and decimals,
\* 3 every beneficiary's own fields, 4 distinct keys, 5 sum
C13_Original ==
    [][(last'.op = "initialize" /\ ~exists /\ SpecFirstError(args, now) # "Ok")
       => last'.err = SpecFirstError(args, now)]_vars

\* C13, amended: rules 3 and 4 are applied together, entry by entry in list
\* order, each entry's own fields before its key is compared with the
\* earlier entries
C13_Amended ==
    [][(last'.op = "initialize" /\ ~exists
        /\ SpecFirstErrorByEntry(args, now) # "Ok")
       => last'.err = SpecFirstErrorByEntry(args, now)]_vars

\* an initialize whose second beneficiary repeats the first and whose third
\* has an invalid field has been rejected
C13_Witness ==
    /\ Did("initialize")
    /\ ~exists
    /\ Len(args.beneficiaries) = 3
    /\ SpecScalarError(args) = "Ok"
    /\ SpecRepeatsEarlier(args.beneficiaries, 2)
    /\ SpecBeneficiaryError(args.beneficiaries[2], now) = "Ok"
    /\ SpecBeneficiaryError(args.beneficiaries[3], now) # "Ok"
    /\ last.err = "DuplicateBeneficiary"

\* C14: a schedule is created once: it appears only by a successful
\* initialize on a key that holds none, it never disappears, and an
\* initialize for a key that holds a schedule fails and leaves authority,
\* token_amount, beneficiaries and the escrow balance unchanged
C14_CreatedOnce ==
    [][/\ exists => exists'
       /\ (~exists /\ exists') => (last'.op = "initialize" /\ last'.err = "Ok")
       /\ (last'.op = "initialize" /\ exists)
             => (last'.err # "Ok" /\ NoMutation)]_vars

\* the authority has sent initialize again for the key of its schedule
C14_Witness ==
    /\ exists
    /\ Did("initialize")
    /\ last.err # "Ok"
    /\ last.caller = data_account.authority

\* C15: once a schedule exists no step changes the ordered list of keys,
\* any beneficiary's allocated_tokens, start_time, cliff_months or
\* total_months, token_amount or decimals; a claim changes claimed_tokens of
\* the calling beneficiary only
C15_MembershipImmutable ==
    [][exists =>
         /\ Len(data_account'.beneficiaries) = Len(Bens)
         /\ \A i \in BenIndexes :
               TermsOf(data_account'.beneficiaries[i]) = TermsOf(Bens[i])
         /\ data_account'.token_amount = data_account.token_amount
         /\ data_account'.decimals = data_account.decimals
         /\ last'.op = "claim" =>
               \A i \in BenIndexes :
                  Bens[i].key # last'.caller =>
                     data_account'.beneficiaries[i].claimed_tokens
                        = Bens[i].claimed_tokens]_vars

\* the second of two beneficiaries has claimed and the first, who has
\* claimed nothing, is still in the list
C15_Witness ==
    /\ Succeeded("claim")
    /\ Len(Bens) = 2
    /\ last.caller = Bens[2].key
    /\ Bens[2].claimed_tokens > 0
    /\ Bens[1].key # Bens[2].key
    /\ Bens[1].claimed_tokens = 0

\* the sum of claimed_tokens over a list of beneficiaries
RECURSIVE ClaimedTotal(_)
ClaimedTotal(bs) ==
    IF bs = <<>> THEN 0 ELSE Head(bs).claimed_tokens + ClaimedTotal(Tail(bs))

\* C16: an instruction that fails, with whatever error, leaves the schedule
\* and the escrow balance as they were; the ledger changes in a step exactly
\* when the escrow balance does: a claim or a withdraw raises the sum of
\* claimed_tokens by the amount that leaves the escrow, and a schedule is
\* created exactly when token_amount enters the escrow
C16_AllOrNothing ==
    [][/\ last'.err # "Ok" => NoMutation
       /\ exists =>
             /\ (data_account'.beneficiaries # Bens) <=> (escrow_amount' # escrow_amount)
             /\ ClaimedTotal(data_account'.beneficiaries) - ClaimedTotal(Bens)
                   = escrow_amount - escrow_amount'
       /\ ~exists =>
             /\ exists' <=> (escrow_amount' # escrow_amount)
             /\ exists' => escrow_amount' = data_account'.token_amount]_vars

\* a claim that passed every test of the handler has failed in the transfer
C16_Witness ==
    /\ Failed("claim", "TransferFailed")
    /\ claim(data_account, escrow_amount, last.caller, now).err = "Ok"

\* every beneficiary has claimed_tokens = allocated_tokens
AllSettled == \A i \in BenIndexes : Bens[i].claimed_tokens = Bens[i].allocated_tokens

\* C17: from a state in which every beneficiary has claimed_tokens =
\* allocated_tokens, every claim of a beneficiary fails with ClaimNotAllowed,
\* every withdraw of the authority fails with NoUnclaimedTokens, and the
\* beneficiary records and the escrow balance do not change
C17_Dormant ==
    [][(exists /\ AllSettled) =>
         /\ (last'.op = "claim" /\ \E i \in BenIndexes : Bens[i].key = last'.caller)
               => last'.err = "ClaimNotAllowed"
         /\ (last'.op = "withdraw" /\ last'.caller = data_account.authority)
               => last'.err = "NoUnclaimedTokens"
         /\ data_account'.beneficiaries = Bens
         /\ escrow_amount' = escrow_amount]_vars

\* C18: once the grace bound of every beneficiary has passed and the
\* authority has performed withdraw, the escrow holds no tokens
C18_NothingLocked ==
    ( /\ exists
      /\ \A i \in BenIndexes : now > GraceBound(Bens[i])
      /\ Did("withdraw")
      /\ last.caller = data_account.authority
      /\ last.err \in {"Ok", "NoUnclaimedTokens"} )
    => escrow_amount = 0

\* C19: a claim of a beneficiary with cliff_months > 0 and claimed_tokens = 0
\* in the first month after the end of its cliff fails with ClaimNotAllowed
\* and changes nothing; one second before the end of the cliff it fails with
\* CliffNotReached
C19_FirstMonthAfterCliff ==
    [][(exists /\ last'.op = "claim") =>
         \A i \in BenIndexes :
            ( /\ Bens[i].key = last'.caller
              /\ Bens[i].cliff_months > 0
              /\ Bens[i].claimed_tokens = 0 )
            => /\ ( /\ CliffEnd(Bens[i]) <= now
                    /\ now < CliffEnd(Bens[i]) + SECONDS_PER_MONTH )
                    => (last'.err = "ClaimNotAllowed" /\ NoMutation)
               /\ now = CliffEnd(Bens[i]) - 1
                    => last'.err = "CliffNotReached"]_vars

\* such a beneficiary has sent a claim in the last second of the first month
\* after its cliff
C19_Witness ==
    /\ Did("claim")
    /\ \E i \in BenIndexes :
          /\ Bens[i].key = last.caller
          /\ Bens[i].cliff_months > 0
          /\ Bens[i].claimed_tokens = 0
          /\ now = CliffEnd(Bens[i]) + SECONDS_PER_MONTH - 1
    /\ last.err = "ClaimNotAllowed"

\* C20: when the clock has passed the grace bound of every beneficiary and
\* the authority has sent a withdraw that was carried out, every beneficiary
\* has claimed_tokens = allocated_tokens
C20_SettledAfterSweep ==
    ( /\ exists
      /\ \A i \in BenIndexes : now > EarliestWithdrawTime(Bens[i])
      /\ Did("withdraw")
      /\ last.caller = data_account.authority
      /\ last.err \in {"Ok", "NoUnclaimedTokens"} )
    => AllSettled

\* what the beneficiaries of a list can still be paid or swept
RECURSIVE Outstanding(_)
Outstanding(bs) ==
    IF bs = <<>> THEN 0
    ELSE Max(Head(bs).allocated_tokens - Head(bs).claimed_tokens, 0)
            + Outstanding(Tail(bs))

\* C21: the escrow of a schedule holds at least the sum over the
\* beneficiaries of allocated_tokens - claimed_tokens floored at 0, and no
\* claim or withdraw fails with InsufficientBalance
C21_Solvent ==
    /\ exists => escrow_amount >= Outstanding(Bens)
    /\ last.op \in {"claim", "withdraw"} => last.err # "InsufficientBalance"

\* after a successful claim the escrow holds exactly what is outstanding,
\* and something is
C21_Witness ==
    /\ exists
    /\ Succeeded("claim")
    /\ Outstanding(Bens) > 0
    /\ escrow_amount = Outstanding(Bens)

\* C22: every beneficiary's claimed_tokens is the sum of what successful
\* claims have transferred to it and what successful withdraws have swept on
\* its behalf
C22_ClaimedIsTransferred ==
    exists => \A i \in BenIndexes :
                 Bens[i].claimed_tokens = transferred[Bens[i].key]

\* claimed_tokens of a key in the list the schedule was created from
InitialClaimed(k) ==
    LET i == CHOOSE j \in 1..Len(args.beneficiaries) : args.beneficiaries[j].key = k
    IN  args.beneficiaries[i].claimed_tokens

\* C23: after a successful claim of a beneficiary that was not swept,
\* claimed_tokens is unlocked(now), whatever claims came before, and all its
\* claims together have paid what a single claim at now would have; a claim
\* of a beneficiary whose claimed_tokens already is unlocked(now) > 0 fails
\* with ClaimNotAllowed and changes nothing
C23_PathIndependent ==
    [][(exists /\ last'.op = "claim") =>
         \A i \in BenIndexes :
            (Bens[i].key = last'.caller /\ Bens[i].key \notin swept) =>
               /\ last'.err = "Ok" =>
                     /\ data_account'.beneficiaries[i].claimed_tokens
                           = SpecUnlocked(Bens[i], now)
                     /\ transferred'[Bens[i].key]
                           = SpecUnlocked(Bens[i], now) - InitialClaimed(Bens[i].key)
               /\ ( /\ now >= CliffEnd(Bens[i])
                    /\ Bens[i].claimed_tokens = SpecUnlocked(Bens[i], now)
                    /\ Bens[i].claimed_tokens > 0 )
                    => (last'.err = "ClaimNotAllowed" /\ NoMutation)]_vars

\* a beneficiary that was not swept has claimed successfully for the second
\* time
C23_Witness ==
    /\ Succeeded("claim")
    /\ last.caller \notin swept
    /\ last.amount > 0
    /\ transferred[last.caller] > last.amount
    /\ \E i \in BenIndexes :
          /\ Bens[i].key = last.caller
          /\ Bens[i].claimed_tokens = SpecUnlocked(Bens[i], now)

\* C24: past its grace bound a beneficiary with allocated_tokens >
\* claimed_tokens is paid the whole difference by its claim, or has it swept
\* by the authority's withdraw, whichever is carried out first; once nothing
\* remains its claim fails with ClaimNotAllowed and a withdraw sweeps nothing
\* more on its behalf; what leaves the escrow in a claim or a withdraw is
\* what stops being outstanding
C24_ClaimSweepRace ==
    [][exists =>
         /\ \A i \in BenIndexes :
               now > GraceBound(Bens[i]) =>
                  LET remaining == Bens[i].allocated_tokens - Bens[i].claimed_tokens
                      after == data_account'.beneficiaries[i]
                  IN  /\ ( /\ remaining > 0
                           /\ last'.op = "claim"
                           /\ last'.caller = Bens[i].key
                           /\ last'.err # "TransferFailed" )
                           => /\ last'.err = "Ok"
                              /\ last'.amount = remaining
                              /\ escrow_amount' = escrow_amount - remaining
                              /\ after.claimed_tokens = Bens[i].allocated_tokens
                      /\ ( /\ remaining > 0
                           /\ last'.op = "withdraw"
                           /\ last'.caller = data_account.authority
                           /\ last'.err # "TransferFailed" )
                           => /\ last'.err = "Ok"
                              /\ after.claimed_tokens = Bens[i].allocated_tokens
                              /\ transferred'[Bens[i].key]
                                    = transferred[Bens[i].key] + remaining
                      /\ ( /\ remaining = 0
                           /\ last'.op = "claim"
                           /\ last'.caller = Bens[i].key )
                           => (last'.err = "ClaimNotAllowed" /\ NoMutation)
                      /\ (remaining = 0 /\ last'.op = "withdraw")
                           => /\ after.claimed_tokens = Bens[i].claimed_tokens
                              /\ transferred'[Bens[i].key] = transferred[Bens[i].key]
         /\ last'.op \in {"claim", "withdraw"}
               => escrow_amount - escrow_amount'
                     = Outstanding(Bens) - Outstanding(data_account'.beneficiaries)]_vars

\* a beneficiary past its grace bound that no withdraw has swept has
\* claimed what remained, and the escrow still holds tokens
C24_Witness ==
    /\ Succeeded("claim")
    /\ last.caller \notin swept
    /\ last.amount > 0
    /\ escrow_amount > 0
    /\ \E i \in BenIndexes :
          /\ Bens[i].key = last.caller
          /\ now > GraceBound(Bens[i])
          /\ Bens[i].claimed_tokens = Bens[i].allocated_tokens

\* C25: in every schedule that initialize accepted the arithmetic of claim
\* and withdraw stays in range: allocated_tokens * months_vested fits the
\* 128 bit product, claimable and claimed_tokens + claimable fit u64, the
\* sum a withdraw sweeps fits u64, and start_time + total_months * M +
\* GRACE_PERIOD fits i64; no claim and no withdraw fails with MathOverflow
C25_NoOverflow ==
    /\ exists =>
          /\ \A i \in BenIndexes :
                LET b == Bens[i]
                    most == Max(b.allocated_tokens - b.claimed_tokens, 0)
                IN  /\ b.allocated_tokens * (b.total_months - b.cliff_months)
                          <= U128_MAX
                    /\ most <= U64_MAX
                    /\ b.claimed_tokens <= U64_MAX - most
                    /\ b.start_time
                          <= I64_MAX - b.total_months * SECONDS_PER_MONTH
                                     - 6 * SECONDS_PER_MONTH
          /\ Outstanding(Bens) <= U64_MAX
    /\ last.op \in {"claim", "withdraw"} => last.err # "MathOverflow"

\* the beneficiary with the largest allocation has claimed in the middle of
\* its vesting
C25_Witness ==
    /\ Succeeded("claim")
    /\ \E i \in BenIndexes :
          /\ Bens[i].key = last.caller
          /\ Bens[i].allocated_tokens = U64_MAX
          /\ Bens[i].claimed_tokens \in 1..(U64_MAX - 1)

====
